---- MODULE Spec2Model ----
(***************************************************************************)
(* The probe execution engine of enchante: RunProbe's worker pool, its job *)
(* dispatcher, the finalizer that closes the result channel, the           *)
(* aggregation loop, and run-scoped cancellation through ctx; and, each   *)
(* on its own, the resolution of a job's headers (getHeadersForEndpoint,  *)
(* auth.GetAuthHeader) and the aggregation of a closed result queue.      *)
(***************************************************************************)
EXTENDS Integers, Sequences, FiniteSets, TLC

(* ---------------------------------------------------------------------- *)
(* Bounds of the model                                                     *)
(* ---------------------------------------------------------------------- *)
MaxC == 2
MaxR == 2
MaxE == 2
MaxElapsed == 1
MaxSample == 5
MaxStatus == 599
MaxLatency == 3
MaxTimeout == 2
MaxDelay == 2
MaxOver == 1
MaxJobs == 2

(* ---------------------------------------------------------------------- *)
(* Configuration (config.Config)                                           *)
(* ---------------------------------------------------------------------- *)
Nil == [Enabled |-> FALSE, Type |-> "<nil>"]

\* config.AuthConfig, by the two fields that decide control flow.
AuthDisabled == [Enabled |-> FALSE, Type |-> "oauth2"]
AuthOAuth2 == [Enabled |-> TRUE, Type |-> "oauth2"]
AuthUnknown == [Enabled |-> TRUE, Type |-> "ldap"]

\* config.Endpoint: the method and the optional per-endpoint auth override.
EndpointPool ==
    { [Method |-> "GET", AuthConfig |-> Nil],
      [Method |-> "POST", AuthConfig |-> AuthUnknown] }

GlobalAuths == {AuthDisabled, AuthOAuth2}

\* config.Delay: only Enabled decides whether the worker sleeps.
Delays ==
    { [Enabled |-> FALSE, Type |-> "fixed", Fixed |-> 0],
      [Enabled |-> TRUE, Type |-> "fixed", Fixed |-> 1] }

EndpointLists == UNION { [1..n -> EndpointPool] : n \in 1..MaxE }

Configs ==
    [ ConcurrentRequests : 1..MaxC,
      TotalRequests : 1..MaxR,
      Endpoints : EndpointLists,
      Auth : GlobalAuths,
      DelayBetween : Delays ]

\* HTTP status codes a target may answer with.
StatusCodes == {200, 399, 400, 500}

Durations == 1..MaxElapsed

\* Goroutine slots for workers: one more than the largest ConcurrentRequests.
Slots == 1..(MaxC + 1)

VARIABLES
    cfg,            \* the configuration, read-only during the run
    cancelled,      \* ctx.Done() is closed
    mainPc,         \* RunProbe's own goroutine: "start", "aggregate", "returned"
    pc,             \* per worker slot: position in the worker loop
    job,            \* per worker slot: the endpoint dequeued (index), 0 if none
    err,            \* per worker slot: the err of the current job
    elapsed,        \* per worker slot: the sample about to be sent
    tmp,            \* per worker slot: counter value loaded for the increment
    jobs,           \* the jobs channel's buffer (endpoint indices)
    jobsClosed,     \* close(jobs) was called
    results,        \* the results channel's buffer (durations)
    resultsClosed,  \* close(results) was called
    wg,             \* the WaitGroup's counter
    countMutex,     \* 0 when free, else the slot holding it
    successCount,
    failureCount,
    dispPc,         \* dispatcher goroutine: "unstarted", "loop", "closed", "stopped"
    i,              \* dispatcher's repetition index
    j,              \* dispatcher's index into the endpoint list
    finPc,          \* finalizer goroutine: "unstarted", "wait", "done"
    totalDuration,  \* aggregation: sum of samples
    count,          \* aggregation: number of samples
    avgTime,        \* aggregation: the average, Absent until it is computed
    summary,        \* the message of RunProbe's final log record, "" before it
    attrs,          \* the attributes of that log record
    log,            \* the set of cancellation/termination messages logged
    enqueued,       \* history: number of jobs sent on jobs
    dequeued,       \* history: number of jobs received from jobs
    cancelMidDispatch, \* history: ctx was cancelled before all jobs were offered
    abortedInFlight, \* history: a request in flight was ended by the cancellation
    taken,          \* history: per endpoint, the jobs received from jobs
    sent,           \* history: per endpoint, the requests handed to the transport
    offered,        \* history: the endpoints sent on jobs, in order
    exchanges,      \* history: the token exchanges started
    call            \* one call of a function checked on its own, NoCall in a run

vars == << cfg, cancelled, mainPc, pc, job, err, elapsed, tmp, jobs, jobsClosed,
           results, resultsClosed, wg, countMutex, successCount, failureCount,
           dispPc, i, j, finPc, totalDuration, count, summary, log,
           enqueued, dequeued, cancelMidDispatch, abortedInFlight,
           avgTime, attrs, taken, sent, offered, exchanges, call >>

workerVars == << pc, job, err, elapsed, tmp >>
dispVars == << dispPc, i, j >>
aggVars == << totalDuration, count, summary, avgTime, attrs >>
histVars == << taken, sent, offered, exchanges >>
counterVars == << successCount, failureCount >>

(* ---------------------------------------------------------------------- *)
(* Derived quantities                                                      *)
(* ---------------------------------------------------------------------- *)
NumEndpoints == Len(cfg.Endpoints)

\* make(chan ..., cfg.ProbingConfig.TotalRequests)
ResultsCap == cfg.TotalRequests
JobsCap == cfg.TotalRequests

\* Faulty variant of the start loop's bound: worker <= ConcurrentRequests.
NumWorkersOneTooMany == cfg.ConcurrentRequests + 1

\* The start loop's bound: worker < cfg.ProbingConfig.ConcurrentRequests
NumWorkers == cfg.ConcurrentRequests

\* Faulty variant of the repetition count: TotalRequests/ConcurrentRequests
\* repetitions for each of ConcurrentRequests shares, the integer division
\* dropping the remainder.
RepetitionsPerWorkerShare ==
    (cfg.TotalRequests \div cfg.ConcurrentRequests) * cfg.ConcurrentRequests

\* The dispatcher's outer loop bound: i < cfg.ProbingConfig.TotalRequests
Repetitions == cfg.TotalRequests

TotalJobs == cfg.TotalRequests * NumEndpoints

\* Faulty variant: a disabled policy of the endpoint counts as none.
EffectiveAuthEnabledOnly(ep) ==
    IF ep.AuthConfig # Nil /\ ep.AuthConfig.Enabled THEN ep.AuthConfig ELSE cfg.Auth

\* getHeadersForEndpoint: the endpoint's own policy when it has one, else the global one.
EffectiveAuth(ep) == IF ep.AuthConfig # Nil THEN ep.AuthConfig ELSE cfg.Auth

\* Faulty variant: an unsupported type is taken as no authentication.
AuthStepLenient(ep) ==
    LET a == EffectiveAuth(ep) IN
    IF ~a.Enabled THEN "none"
    ELSE IF a.Type \in {"api_key", "basic"} THEN "static"
    ELSE IF a.Type = "oauth2" THEN "token"
    ELSE "none"

\* What resolving the auth header of ep needs: "none" (no header, no error),
\* "static" (api_key, basic), "token" (an OAuth2 exchange), "error" (unknown type).
AuthStep(ep) ==
    LET a == EffectiveAuth(ep) IN
    IF ~a.Enabled THEN "none"
    ELSE IF a.Type \in {"api_key", "basic"} THEN "static"
    ELSE IF a.Type = "oauth2" THEN "token"
    ELSE "error"

InFlight == Cardinality({w \in Slots : pc[w] = "request"})
Started == {w \in Slots : pc[w] # "unstarted"}
\* Workers holding a dequeued job that no counter has recorded yet.
Holding == {w \in Slots : pc[w] \in {"token", "sleep", "request", "send", "lock", "incr"}}

(* ---------------------------------------------------------------------- *)
(* Initial state: RunProbe entered, channels made, nothing started         *)
(* ---------------------------------------------------------------------- *)
\* The attributes of the final log record; Absent marks one not logged.
Absent == -1
NoAttrs ==
    [ total_requests |-> Absent, successful_requests |-> Absent,
      failed_requests |-> Absent, avg_response_time |-> Absent ]

\* No function is being checked on its own.
NoCall == [fn |-> "none"]

\* RunProbe entered with configuration cfg.
Entered ==
    /\ cancelled = FALSE
    /\ mainPc = "start"
    /\ pc = [w \in Slots |-> "unstarted"]
    /\ job = [w \in Slots |-> 0]
    /\ err = [w \in Slots |-> "nil"]
    /\ elapsed = [w \in Slots |-> 0]
    /\ tmp = [w \in Slots |-> 0]
    /\ jobs = << >>
    /\ jobsClosed = FALSE
    /\ results = << >>
    /\ resultsClosed = FALSE
    /\ wg = 0
    /\ countMutex = 0
    /\ successCount = 0
    /\ failureCount = 0
    /\ dispPc = "unstarted"
    /\ i = 0
    /\ j = 1
    /\ finPc = "unstarted"
    /\ totalDuration = 0
    /\ count = 0
    /\ summary = ""
    /\ log = {}
    /\ enqueued = 0
    /\ dequeued = 0
    /\ cancelMidDispatch = FALSE
    /\ abortedInFlight = FALSE
    /\ avgTime = Absent
    /\ attrs = NoAttrs
    /\ taken = [e \in 1..Len(cfg.Endpoints) |-> 0]
    /\ sent = [e \in 1..Len(cfg.Endpoints) |-> 0]
    /\ offered = << >>
    /\ exchanges = 0

Init ==
    /\ cfg \in Configs
    /\ Entered
    /\ call = NoCall

(* ---------------------------------------------------------------------- *)
(* The caller cancels ctx. A ctx cancelled before RunProbe is entered      *)
(* behaves as one cancelled right after Start, which is a single step.     *)
(* ---------------------------------------------------------------------- *)
Cancel ==
    /\ mainPc = "aggregate"
    /\ ~cancelled
    /\ cancelled' = TRUE
    /\ cancelMidDispatch' = (enqueued < TotalJobs)
    /\ UNCHANGED << cfg, mainPc, workerVars, jobs, jobsClosed, results, resultsClosed,
                    wg, countMutex, counterVars, dispVars, finPc, aggVars, log,
                    enqueued, dequeued, abortedInFlight, histVars, call >>

(* ---------------------------------------------------------------------- *)
(* RunProbe: start the workers, the dispatcher and the finalizer           *)
(* ---------------------------------------------------------------------- *)
Start ==
    /\ mainPc = "start"
    /\ mainPc' = "aggregate"
    /\ pc' = [w \in Slots |-> IF w <= NumWorkers THEN "select" ELSE "unstarted"]
    /\ wg' = NumWorkers
    /\ dispPc' = "loop"
    /\ finPc' = "wait"
    /\ UNCHANGED << cfg, cancelled, job, err, elapsed, tmp, jobs, jobsClosed, results,
                    resultsClosed, countMutex, counterVars, i, j, aggVars, log,
                    enqueued, dequeued, cancelMidDispatch, abortedInFlight, histVars, call >>

(* ---------------------------------------------------------------------- *)
(* Worker goroutine                                                        *)
(* ---------------------------------------------------------------------- *)
TokenOutcomes == {"ok", "transport", "status", "parse", "missing"}

\* ctx.Done() is ready, as the selects of the worker and the dispatcher see it.
CtxDone == cancelled

\* Faulty variant: the request's context is cancelled before client.Do
\* returns (cancel() called instead of deferred).
RequestCtxAlreadyDone == TRUE

\* The request's own context, context.WithTimeout(ctx, timeout), is done
\* through its parent ctx (its deadline is RequestError's case).
RequestCtxDone == cancelled

\* Faulty variant: the counters are updated without countMutex.
MutexIgnored == TRUE

\* countMutex.Lock() may proceed.
MutexFree == countMutex = 0

\* net/http's validMethod: a non-empty token; of the methods configured
\* here only these are.
ValidMethod(m) == m \in {"GET", "POST"}

\* makeRequest for endpoint e after the delay, up to the point where the
\* request is handed to the transport: http.NewRequestWithContext rejects an
\* invalid method, and the transport refuses a request whose context is
\* already done.
SendRequest(w, e) ==
    IF ~ValidMethod(cfg.Endpoints[e].Method)
    THEN /\ pc' = [pc EXCEPT ![w] = "lock"]
         /\ err' = [err EXCEPT ![w] = "failed to create request"]
         /\ sent' = sent
    ELSE IF cancelled
    THEN /\ pc' = [pc EXCEPT ![w] = "lock"]
         /\ err' = [err EXCEPT ![w] = "ErrRequestFailed: context canceled"]
         /\ sent' = sent
    ELSE /\ pc' = [pc EXCEPT ![w] = "request"]
         /\ err' = err
         /\ sent' = [sent EXCEPT ![e] = @ + 1]

\* makeRequest for endpoint e from its first line.
MakeRequest(w, e) ==
    IF cfg.DelayBetween.Enabled
    THEN /\ pc' = [pc EXCEPT ![w] = "sleep"]
         /\ err' = err
         /\ sent' = sent
    ELSE SendRequest(w, e)

\* select, case <-ctx.Done()
WorkerCancelled(w) ==
    /\ pc[w] = "select"
    /\ CtxDone
    /\ pc' = [pc EXCEPT ![w] = "stopped"]
    /\ wg' = wg - 1
    /\ log' = log \cup {"Worker stopped due to cancellation"}
    /\ UNCHANGED << cfg, cancelled, mainPc, job, err, elapsed, tmp, jobs, jobsClosed,
                    results, resultsClosed, countMutex, counterVars, dispVars, finPc,
                    aggVars, enqueued, dequeued, cancelMidDispatch, abortedInFlight, histVars, call >>

\* Faulty variant: the token of the first exchange is kept for later jobs.
TokenCachedAfterFirst == exchanges > 0

\* A token of an earlier job can be used: GetAuthHeader keeps none.
TokenCached == FALSE

\* Faulty variant: the received job stays in the buffer.
ReceiveLeavesJob == jobs

\* The jobs buffer after a receive: the oldest job is removed from it.
Receive == Tail(jobs)

\* select, case endpoint, ok := <-jobs with ok: the job is taken and
\* getHeadersForEndpoint runs up to its result or its token exchange.
WorkerDequeue(w) ==
    /\ pc[w] = "select"
    /\ Len(jobs) > 0
    /\ jobs' = Receive
    /\ dequeued' = dequeued + 1
    /\ job' = [job EXCEPT ![w] = Head(jobs)]
    /\ taken' = [taken EXCEPT ![Head(jobs)] = @ + 1]
    /\ LET step == AuthStep(cfg.Endpoints[Head(jobs)]) IN
       CASE step = "token" /\ ~TokenCached ->
              /\ pc' = [pc EXCEPT ![w] = "token"]
              /\ err' = err
              /\ sent' = sent
              /\ exchanges' = exchanges + 1
         [] step = "error" ->
              /\ pc' = [pc EXCEPT ![w] = "lock"]
              /\ err' = [err EXCEPT ![w] = "failed to get auth header"]
              /\ sent' = sent
              /\ exchanges' = exchanges
         [] OTHER ->
              /\ MakeRequest(w, Head(jobs))
              /\ exchanges' = exchanges
    /\ UNCHANGED << cfg, cancelled, mainPc, elapsed, tmp, jobsClosed, results,
                    resultsClosed, wg, countMutex, counterVars, dispVars, finPc,
                    aggVars, log, enqueued, cancelMidDispatch, abortedInFlight,
                    offered, call >>

\* select, case endpoint, ok := <-jobs with !ok: closed and drained.
WorkerFinished(w) ==
    /\ pc[w] = "select"
    /\ Len(jobs) = 0
    /\ jobsClosed
    /\ pc' = [pc EXCEPT ![w] = "finished"]
    /\ wg' = wg - 1
    /\ log' = log \cup {"Worker finished"}
    /\ UNCHANGED << cfg, cancelled, mainPc, job, err, elapsed, tmp, jobs, jobsClosed,
                    results, resultsClosed, countMutex, counterVars, dispVars, finPc,
                    aggVars, enqueued, dequeued, cancelMidDispatch, abortedInFlight, histVars, call >>

\* getOAuthToken's client.Do returns: the token server answered or the
\* transport failed. The request carries no context and the client no timeout.
TokenResponse(w) ==
    /\ pc[w] = "token"
    /\ \E o \in TokenOutcomes :
          IF o = "ok"
          THEN MakeRequest(w, job[w])
          ELSE /\ pc' = [pc EXCEPT ![w] = "lock"]
               /\ err' = [err EXCEPT ![w] = "failed to get auth header"]
               /\ sent' = sent
    /\ UNCHANGED << cfg, cancelled, mainPc, job, elapsed, tmp, jobs, jobsClosed,
                    results, resultsClosed, wg, countMutex, counterVars, dispVars,
                    finPc, aggVars, log, enqueued, dequeued, cancelMidDispatch,
                    abortedInFlight, taken, offered, exchanges, call >>

\* time.Sleep returns.
SleepDone(w) ==
    /\ pc[w] = "sleep"
    /\ SendRequest(w, job[w])
    /\ UNCHANGED << cfg, cancelled, mainPc, job, elapsed, tmp, jobs, jobsClosed,
                    results, resultsClosed, wg, countMutex, counterVars, dispVars,
                    finPc, aggVars, log, enqueued, dequeued, cancelMidDispatch,
                    abortedInFlight, taken, offered, exchanges, call >>

\* Faulty variant: status 400 passes.
ErrorStatusAbove(status) == status > 400

\* resp.StatusCode >= 400
ErrorStatus(status) == status >= 400

\* client.Do returns with a response.
RequestResponse(w) ==
    /\ pc[w] = "request"
    /\ \E status \in StatusCodes :
          IF ErrorStatus(status)
          THEN /\ pc' = [pc EXCEPT ![w] = "lock"]
               /\ err' = [err EXCEPT ![w] = "ErrStatusCode"]
               /\ elapsed' = elapsed
          ELSE /\ pc' = [pc EXCEPT ![w] = "send"]
               /\ err' = err
               /\ \E d \in Durations : elapsed' = [elapsed EXCEPT ![w] = d]
    /\ UNCHANGED << cfg, cancelled, mainPc, job, tmp, jobs, jobsClosed,
                    results, resultsClosed, wg, countMutex, counterVars, dispVars,
                    finPc, aggVars, log, enqueued, dequeued, cancelMidDispatch, abortedInFlight, histVars, call >>

\* Faulty variant: one deadline for the run, ending every request in flight.
TimeoutOfRun(w) == {v \in Slots : pc[v] = "request"}

\* The requests that the expiry of w's deadline ends: the context with the
\* deadline and the client are made for this request alone.
TimeoutScope(w) == {w}

\* client.Do returns an error of the request's own: the transport failed, or
\* the per-request timeout expired.
RequestError(w) ==
    /\ pc[w] = "request"
    /\ \E cause \in {"transport", "context deadline exceeded"} :
          LET hit == IF cause = "context deadline exceeded" THEN TimeoutScope(w) ELSE {w}
          IN  /\ err' = [v \in Slots |->
                           IF v \in hit THEN "ErrRequestFailed: " \o cause ELSE err[v]]
              /\ pc' = [v \in Slots |-> IF v \in hit THEN "lock" ELSE pc[v]]
    /\ UNCHANGED << cfg, cancelled, mainPc, job, elapsed, tmp, jobs, jobsClosed,
                    results, resultsClosed, wg, countMutex, counterVars, dispVars,
                    finPc, aggVars, log, enqueued, dequeued, cancelMidDispatch, abortedInFlight, histVars, call >>

\* client.Do returns because the request's context, derived from the run's
\* ctx by context.WithTimeout, was cancelled through its parent.
RequestCancelled(w) ==
    /\ pc[w] = "request"
    /\ RequestCtxDone
    /\ err' = [err EXCEPT ![w] = "ErrRequestFailed: context canceled"]
    /\ pc' = [pc EXCEPT ![w] = "lock"]
    /\ abortedInFlight' = TRUE
    /\ UNCHANGED << cfg, cancelled, mainPc, job, elapsed, tmp, jobs, jobsClosed,
                    results, resultsClosed, wg, countMutex, counterVars, dispVars,
                    finPc, aggVars, log, enqueued, dequeued, cancelMidDispatch, histVars, call >>

\* results <- elapsed; makeRequest returns nil.
WorkerSend(w) ==
    /\ pc[w] = "send"
    /\ Len(results) < ResultsCap
    /\ results' = Append(results, elapsed[w])
    /\ pc' = [pc EXCEPT ![w] = "lock"]
    /\ UNCHANGED << cfg, cancelled, mainPc, job, err, elapsed, tmp, jobs, jobsClosed,
                    resultsClosed, wg, countMutex, counterVars, dispVars, finPc,
                    aggVars, log, enqueued, dequeued, cancelMidDispatch, abortedInFlight, histVars, call >>

\* Faulty variant: the branches of the counter update are swapped.
CountsAsFailure(w) == err[w] # "nil"

\* The counter update's test: err == nil selects successCount.
CountsAsSuccess(w) == err[w] = "nil"

\* countMutex.Lock() and the load of the counter to increment.
WorkerLock(w) ==
    /\ pc[w] = "lock"
    /\ MutexFree
    /\ countMutex' = w
    /\ tmp' = [tmp EXCEPT ![w] = IF CountsAsSuccess(w) THEN successCount ELSE failureCount]
    /\ pc' = [pc EXCEPT ![w] = "incr"]
    /\ UNCHANGED << cfg, cancelled, mainPc, job, err, elapsed, jobs, jobsClosed,
                    results, resultsClosed, wg, counterVars, dispVars, finPc,
                    aggVars, log, enqueued, dequeued, cancelMidDispatch, abortedInFlight, histVars, call >>

\* Faulty variant: the worker returns after a failed job.
ReturnOnFailure(w) == IF err[w] = "nil" THEN "select" ELSE "stopped"

\* Where the worker goes after a job, failed or not: the next iteration of
\* its for loop.
NextIteration(w) == "select"

\* The store of the incremented counter and countMutex.Unlock(); the worker
\* loops back to its select.
WorkerIncrement(w) ==
    /\ pc[w] = "incr"
    /\ IF CountsAsSuccess(w)
       THEN /\ successCount' = tmp[w] + 1
            /\ failureCount' = failureCount
       ELSE /\ failureCount' = tmp[w] + 1
            /\ successCount' = successCount
    /\ countMutex' = 0
    /\ pc' = [pc EXCEPT ![w] = NextIteration(w)]
    /\ job' = [job EXCEPT ![w] = 0]
    /\ err' = [err EXCEPT ![w] = "nil"]
    /\ elapsed' = [elapsed EXCEPT ![w] = 0]
    /\ tmp' = [tmp EXCEPT ![w] = 0]
    /\ UNCHANGED << cfg, cancelled, mainPc, jobs, jobsClosed, results, resultsClosed,
                    wg, dispVars, finPc, aggVars, log, enqueued, dequeued,
                    cancelMidDispatch, abortedInFlight, histVars, call >>

\* The steps of a worker that the program itself completes.
WorkerStep(w) ==
    \/ WorkerCancelled(w)
    \/ WorkerDequeue(w)
    \/ WorkerFinished(w)
    \/ SleepDone(w)
    \/ RequestResponse(w)
    \/ RequestError(w)
    \/ RequestCancelled(w)
    \/ WorkerSend(w)
    \/ WorkerLock(w)
    \/ WorkerIncrement(w)

(* ---------------------------------------------------------------------- *)
(* Dispatcher goroutine                                                    *)
(* ---------------------------------------------------------------------- *)
\* select, case <-ctx.Done()
DispatcherCancelled ==
    /\ dispPc = "loop"
    /\ i < Repetitions
    /\ CtxDone
    /\ dispPc' = "stopped"
    /\ log' = log \cup {"Job queue stopped due to cancellation"}
    /\ UNCHANGED << cfg, cancelled, mainPc, workerVars, jobs, jobsClosed, results,
                    resultsClosed, wg, countMutex, counterVars, i, j, finPc, aggVars,
                    enqueued, dequeued, cancelMidDispatch, abortedInFlight, histVars, call >>

\* Faulty variant: the endpoint of the endpoint-major enumeration (each
\* endpoint's repetitions together) at the dispatcher's position.
EndpointMajor == ((i * NumEndpoints + (j - 1)) \div cfg.TotalRequests) + 1

\* The range variable of the inner loop: the endpoint at index j.
RangeEndpoint == j

\* select, case jobs <- endpoint
DispatcherSend ==
    /\ dispPc = "loop"
    /\ i < Repetitions
    /\ Len(jobs) < JobsCap
    /\ jobs' = Append(jobs, RangeEndpoint)
    /\ offered' = Append(offered, RangeEndpoint)
    /\ enqueued' = enqueued + 1
    /\ IF j = NumEndpoints
       THEN /\ j' = 1
            /\ i' = i + 1
       ELSE /\ j' = j + 1
            /\ i' = i
    /\ UNCHANGED << cfg, cancelled, mainPc, workerVars, jobsClosed, results,
                    resultsClosed, wg, countMutex, counterVars, dispPc, finPc, aggVars,
                    log, dequeued, cancelMidDispatch, abortedInFlight, taken, sent,
                    exchanges, call >>

\* Faulty variant: the dispatcher ends without close(jobs).
JobsLeftOpen == jobsClosed

\* The value of jobsClosed after the dispatcher's close(jobs).
CloseJobs == TRUE

\* close(jobs) after the loops
DispatcherClose ==
    /\ dispPc = "loop"
    /\ i >= Repetitions
    /\ jobsClosed' = CloseJobs
    /\ dispPc' = "closed"
    /\ log' = log \cup {"Job queue closed"}
    /\ UNCHANGED << cfg, cancelled, mainPc, workerVars, jobs, results, resultsClosed,
                    wg, countMutex, counterVars, i, j, finPc, aggVars, enqueued,
                    dequeued, cancelMidDispatch, abortedInFlight, histVars, call >>

Dispatcher == DispatcherCancelled \/ DispatcherSend \/ DispatcherClose

(* ---------------------------------------------------------------------- *)
(* Finalizer goroutine and the aggregation loop                            *)
(* ---------------------------------------------------------------------- *)
\* Faulty variant: results is closed without waiting for the workers.
WaitSkipped == TRUE

\* wg.Wait() returns: every worker has called Done.
WaitReturns == wg = 0

\* wg.Wait() returns; close(results)
Finalizer ==
    /\ finPc = "wait"
    /\ WaitReturns
    /\ resultsClosed' = TRUE
    /\ finPc' = "done"
    /\ UNCHANGED << cfg, cancelled, mainPc, workerVars, jobs, jobsClosed, results, wg,
                    countMutex, counterVars, dispVars, aggVars, log, enqueued,
                    dequeued, cancelMidDispatch, abortedInFlight, histVars, call >>

\* Faulty variant: samples are collected only once results is closed.
ReceiveOnlyAfterClose == resultsClosed /\ Len(results) > 0

\* for duration := range results may take a sample.
CanReceive == Len(results) > 0

AggregateReceive ==
    /\ mainPc = "aggregate"
    /\ CanReceive
    /\ totalDuration' = totalDuration + Head(results)
    /\ count' = count + 1
    /\ results' = Tail(results)
    /\ UNCHANGED << cfg, cancelled, mainPc, workerVars, jobs, jobsClosed, resultsClosed,
                    wg, countMutex, counterVars, dispVars, finPc, summary, avgTime,
                    attrs, log, enqueued, dequeued, cancelMidDispatch, abortedInFlight, histVars, call >>

\* Faulty variant: the loop ends as soon as no sample is waiting.
RangeEndsWhenEmpty == Len(results) = 0

\* for duration := range results ends: results is closed and drained.
RangeEnds == Len(results) = 0 /\ resultsClosed

\* Go's integer division panics on a zero divisor ("integer divide by
\* zero"); the operands here are never negative, so its truncation is \div.
DivisionPanics(b) == b = 0

\* Faulty variant: the average is computed whatever the count.
AlwaysAverage == TRUE

\* The guard of the average: if count > 0
HasSamples == count > 0

\* The message logged for a run without samples.
NoSampleMessage == "No requests were successful"

\* The range loop ends on the closed, drained channel; the average is
\* computed if there are samples and the summary is logged. A panic ends the
\* program before anything is logged.
AggregateDone ==
    /\ mainPc = "aggregate"
    /\ RangeEnds
    /\ IF HasSamples
       THEN IF DivisionPanics(count)
            THEN /\ mainPc' = "panicked"
                 /\ UNCHANGED << avgTime, summary, attrs >>
            ELSE /\ avgTime' = totalDuration \div count
                 /\ mainPc' = "returned"
                 /\ summary' = "Test completed"
                 /\ attrs' = [ total_requests |-> count,
                               successful_requests |-> successCount,
                               failed_requests |-> failureCount,
                               avg_response_time |-> avgTime' ]
       ELSE /\ avgTime' = avgTime
            /\ mainPc' = "returned"
            /\ summary' = NoSampleMessage
            /\ attrs' = [NoAttrs EXCEPT !.failed_requests = failureCount]
    /\ UNCHANGED << cfg, cancelled, workerVars, jobs, jobsClosed, results,
                    resultsClosed, wg, countMutex, counterVars, dispVars, finPc,
                    totalDuration, count, log, enqueued, dequeued, cancelMidDispatch, abortedInFlight, histVars, call >>

Aggregator == AggregateReceive \/ AggregateDone

(* ---------------------------------------------------------------------- *)
(* Specifications                                                          *)
(* ---------------------------------------------------------------------- *)
Next ==
    \/ Cancel
    \/ Start
    \/ \E w \in Slots : WorkerStep(w)
    \/ \E w \in Slots : TokenResponse(w)
    \/ Dispatcher
    \/ Finalizer
    \/ Aggregator

Spec == Init /\ [][Next]_vars

\* What the Go scheduler and the code's own timeouts guarantee: every
\* goroutine that can take a step eventually does. A target request ends by
\* its timeout at the latest; a token exchange has no bound of its own.
ProgramFairness ==
    /\ WF_vars(Start)
    /\ \A w \in Slots : WF_vars(WorkerStep(w))
    /\ WF_vars(Dispatcher)
    /\ WF_vars(Finalizer)
    /\ WF_vars(Aggregator)

LiveSpec == Spec /\ ProgramFairness

\* In addition every network call ends: the token server always answers or fails.
FairSpec == Spec /\ ProgramFairness /\ \A w \in Slots : WF_vars(TokenResponse(w))

(* ---------------------------------------------------------------------- *)
(* Runs in which jobs fail for every kind of per-job error                 *)
(* ---------------------------------------------------------------------- *)
\* Endpoints under a global policy of an unsupported type: one inheriting
\* it, one whose method http.NewRequestWithContext rejects, and one with an
\* OAuth2 policy of its own.
FailingEndpointPool ==
    { [Method |-> "GET", AuthConfig |-> Nil],
      [Method |-> "BAD METHOD", AuthConfig |-> AuthDisabled],
      [Method |-> "POST", AuthConfig |-> AuthOAuth2] }

FailingConfigs ==
    [ ConcurrentRequests : 1..MaxC,
      TotalRequests : 1..MaxR,
      Endpoints : UNION { [1..n -> FailingEndpointPool] : n \in 1..MaxE },
      Auth : {AuthUnknown},
      DelayBetween : Delays ]

ErrInit ==
    /\ cfg \in FailingConfigs
    /\ Entered
    /\ call = NoCall

ErrSpec == ErrInit /\ [][Next]_vars

(* ---------------------------------------------------------------------- *)
(* The aggregation loop on its own                                         *)
(* ---------------------------------------------------------------------- *)
Samples == 1..MaxSample

\* Sequences over S of length at most n.
SeqsUpTo(S, n) == UNION { [1..k -> S] : k \in 0..n }

RECURSIVE Sum(_)
Sum(s) == IF s = << >> THEN 0 ELSE Head(s) + Sum(Tail(s))

\* One worker ran all TotalRequests jobs of a single endpoint and exited,
\* the successful ones left their samples in results, the finalizer closed
\* it, and the aggregation loop has not taken a sample yet.
AggInit ==
    /\ cfg \in { c \in Configs : /\ c.ConcurrentRequests = 1
                                 /\ c.Endpoints = << [Method |-> "GET", AuthConfig |-> Nil] >>
                                 /\ c.Auth = AuthDisabled
                                 /\ ~c.DelayBetween.Enabled }
    /\ results \in SeqsUpTo(Samples, cfg.TotalRequests)
    /\ call = [fn |-> "aggregate", samples |-> results]
    /\ cancelled = FALSE
    /\ mainPc = "aggregate"
    /\ pc = [w \in Slots |-> IF w = 1 THEN "finished" ELSE "unstarted"]
    /\ job = [w \in Slots |-> 0]
    /\ err = [w \in Slots |-> "nil"]
    /\ elapsed = [w \in Slots |-> 0]
    /\ tmp = [w \in Slots |-> 0]
    /\ jobs = << >>
    /\ jobsClosed = TRUE
    /\ resultsClosed = TRUE
    /\ wg = 0
    /\ countMutex = 0
    /\ successCount = Len(results)
    /\ failureCount = cfg.TotalRequests - Len(results)
    /\ dispPc = "closed"
    /\ i = cfg.TotalRequests
    /\ j = 1
    /\ finPc = "done"
    /\ totalDuration = 0
    /\ count = 0
    /\ summary = ""
    /\ log = {"Job queue closed", "Worker finished"}
    /\ enqueued = cfg.TotalRequests
    /\ dequeued = cfg.TotalRequests
    /\ cancelMidDispatch = FALSE
    /\ abortedInFlight = FALSE
    /\ avgTime = Absent
    /\ attrs = NoAttrs
    /\ taken = << cfg.TotalRequests >>
    /\ sent = << cfg.TotalRequests >>
    /\ offered = [k \in 1..cfg.TotalRequests |-> 1]
    /\ exchanges = 0

AggSpec == AggInit /\ [][Aggregator]_vars

(* ---------------------------------------------------------------------- *)
(* getHeadersForEndpoint and auth.GetAuthHeader on their own               *)
(* ---------------------------------------------------------------------- *)
\* A config.AuthConfig with its credentials; owner tells the global policy's
\* credentials from an endpoint's.
Policy(enabled, type, owner) ==
    [ Enabled |-> enabled,
      Type |-> type,
      APIKey |-> [Header |-> "X-API-Key", Value |-> owner \o "-key"],
      Basic |-> [Username |-> owner, Password |-> "secret"],
      OAuth2 |-> [ TokenURL |-> "https://" \o owner \o "/token",
                   ClientID |-> owner \o "-client", ClientSecret |-> "secret",
                   Username |-> "", Password |-> "",
                   GrantType |-> "client_credentials", Scope |-> "" ] ]

\* The policy with another api_key header name.
KeyedBy(p, h) == [p EXCEPT !.APIKey.Header = h]

PolicyKinds ==
    { <<FALSE, "">>, <<FALSE, "api_key">>, <<TRUE, "api_key">>, <<TRUE, "basic">>,
      <<TRUE, "oauth2">>, <<TRUE, "ldap">> }

\* The api_key header names checked besides X-API-Key: the two names the
\* other steps of the merge write, and none.
KeyNames == {"User-Agent", "Authorization", ""}

GlobalPolicies ==
    { Policy(k[1], k[2], "global") : k \in PolicyKinds }
    \cup { KeyedBy(Policy(TRUE, "api_key", "global"), h) : h \in KeyNames }
EndpointPolicies ==
    {Nil} \cup { Policy(k[1], k[2], "endpoint") : k \in PolicyKinds }
    \cup { KeyedBy(Policy(TRUE, "api_key", "endpoint"), h) : h \in KeyNames }

\* map[string]string values.
EmptyMap == [h \in {} |-> ""]

\* Faulty variant: an existing entry is kept.
PutIfAbsent(m, k, v) == [h \in (DOMAIN m) \cup {k} |-> IF h \in DOMAIN m THEN m[h] ELSE v]

\* m[k] = v
Put(m, k, v) == [h \in (DOMAIN m) \cup {k} |-> IF h = k THEN v ELSE m[h]]

\* Endpoint.Headers of the endpoints checked.
StaticHeaders ==
    { EmptyMap,
      [h \in {"Accept"} |-> "application/json"],
      [h \in {"Authorization"} |-> "static"],
      [h \in {"X-API-Key"} |-> "static-key"],
      [h \in {"Authorization", "User-Agent"} |-> "static"] }

UserAgent == "Mozilla/5.0 (compatible; EnchanteBot/1.0)"

\* base64.StdEncoding.EncodeToString, kept symbolic: an injective encoding
\* of its argument that is not the argument.
Base64(s) == "base64(" \o s \o ")"

\* The response bodies of a token server: a body whose read fails, text
\* that is no JSON, a JSON array, the JSON null, and JSON objects whose
\* access_token is absent, null, a number or a string.
TokenBodies ==
    { [kind |-> k, field |-> "absent", value |-> ""] :
        k \in {"unreadable", "text", "array", "null"} }
    \cup { [kind |-> "object", field |-> f, value |-> ""] :
             f \in {"absent", "null", "number"} }
    \cup { [kind |-> "object", field |-> "string", value |-> v] : v \in {"", "tok"} }

TokenStatuses == {200, 201, 204, 400, 401, 500}

\* What the token server does with an exchange: the transport fails, or it
\* answers with a status and a body.
TokenReplies ==
    { [reach |-> "failed", status |-> 0,
       body |-> [kind |-> "text", field |-> "absent", value |-> ""]] }
    \cup [reach : {"answered"}, status : TokenStatuses, body : TokenBodies]

\* http.NewRequest fails on a URL that url.Parse rejects.
MalformedURL == "://idp/token"
NewRequestFails(url) == url = MalformedURL

\* The form getOAuthToken posts, as a form decoder reads it: the six
\* name=value pairs of the format string in their order (the values checked
\* hold no character that the encoding reserves).
TokenForm(auth) ==
    << <<"client_id", auth.ClientID>>, <<"client_secret", auth.ClientSecret>>,
       <<"username", auth.Username>>, <<"password", auth.Password>>,
       <<"grant_type", auth.GrantType>>, <<"scope", auth.Scope>> >>

\* Faulty variant: the status is not looked at.
AnyStatus(status) == TRUE

\* Faulty variant: every 2xx status passes.
StatusIs2xx(status) == status \in 200..299

\* resp.StatusCode != 200, negated
StatusOK(status) == status = 200

\* json.Unmarshal(body, &result) into a map[string]interface{} fails on
\* text that is no JSON and on JSON that is no object; null leaves the map nil.
UnmarshalFails(body) == body.kind \in {"text", "array"}

\* result["access_token"].(string)
HasStringToken(body) == body.kind = "object" /\ body.field = "string"

\* getOAuthToken against a token server that does reply; requests is what
\* was posted. An error is modelled by its text up to the wrapped cause.
GetOAuthToken(auth, reply) ==
    LET request == [ url |-> auth.TokenURL,
                     contentType |-> "application/x-www-form-urlencoded",
                     form |-> TokenForm(auth) ]
        Failed(text) == [token |-> "", err |-> text, requests |-> {request}]
    IN  IF NewRequestFails(auth.TokenURL)
        THEN [token |-> "", err |-> "failed to create OAuth request", requests |-> {}]
        ELSE IF reply.reach = "failed"
        THEN Failed("OAuth request failed")
        ELSE IF ~StatusOK(reply.status)
        THEN Failed("OAuth server returned status: " \o ToString(reply.status))
        ELSE IF reply.body.kind = "unreadable"
        THEN Failed("failed to read OAuth response")
        ELSE IF UnmarshalFails(reply.body)
        THEN Failed("failed to parse OAuth response")
        ELSE IF ~HasStringToken(reply.body)
        THEN Failed("access_token not found in response")
        ELSE [token |-> reply.body.value, err |-> "nil", requests |-> {request}]

\* Faulty variant: Enabled is not looked at.
AuthNeverOff(authConfig) == FALSE

\* !authConfig.Enabled
AuthOff(authConfig) == ~authConfig.Enabled

\* auth.GetAuthHeader; exchanged are the token URLs posted to and posted the
\* requests.
GetAuthHeader(authConfig, o) ==
    IF AuthOff(authConfig)
    THEN [header |-> "", value |-> "", err |-> "nil", exchanged |-> {}, posted |-> {}]
    ELSE CASE authConfig.Type = "api_key" ->
                [ header |-> authConfig.APIKey.Header, value |-> authConfig.APIKey.Value,
                  err |-> "nil", exchanged |-> {}, posted |-> {} ]
           [] authConfig.Type = "basic" ->
                [ header |-> "Authorization",
                  value |-> "Basic " \o
                      Base64(authConfig.Basic.Username \o ":" \o authConfig.Basic.Password),
                  err |-> "nil", exchanged |-> {}, posted |-> {} ]
           [] authConfig.Type = "oauth2" ->
                LET t == GetOAuthToken(authConfig.OAuth2, o)
                    urls == { r.url : r \in t.requests }
                IN  IF t.err # "nil"
                    THEN [ header |-> "", value |-> "", err |-> t.err,
                           exchanged |-> urls, posted |-> t.requests ]
                    ELSE [ header |-> "Authorization", value |-> "Bearer " \o t.token,
                           err |-> "nil", exchanged |-> urls, posted |-> t.requests ]
           [] OTHER ->
                [ header |-> "", value |-> "",
                  err |-> "unsupported auth type: " \o authConfig.Type,
                  exchanged |-> {}, posted |-> {} ]

\* Faulty variant: headers is the endpoint's own map.
HeadersIsEndpointMap == TRUE

\* headers := make(map[string]string) is a map of its own, so the
\* assignments to headers do not reach endpoint.Headers.
HeadersAliased == FALSE

\* getHeadersForEndpoint(endpoint, &cfg.Auth, logger), the token server
\* replying with o if it is asked; auth is what GetAuthHeader returned, and
\* endpointHeaders what endpoint.Headers holds when the call returns.
GetHeadersForEndpoint(endpoint, o) ==
    LET authConfig == EffectiveAuth(endpoint)
        r == IF authConfig.Enabled
             THEN GetAuthHeader(authConfig, o)
             ELSE [header |-> "", value |-> "", err |-> "nil", exchanged |-> {}]
        withAuth == IF r.header # ""
                    THEN Put(endpoint.Headers, r.header, r.value)
                    ELSE endpoint.Headers
        final == Put(withAuth, "User-Agent", UserAgent)
    IN  IF r.err # "nil"
        THEN [ headers |-> EmptyMap, err |-> "failed to get auth header: " \o r.err,
               exchanged |-> r.exchanged,
               auth |-> [header |-> r.header, value |-> r.value],
               endpointHeaders |-> endpoint.Headers ]
        ELSE [ headers |-> final, err |-> "nil",
               exchanged |-> r.exchanged,
               auth |-> [header |-> r.header, value |-> r.value],
               endpointHeaders |-> IF HeadersAliased THEN final ELSE endpoint.Headers ]

\* The replies of the token server in the calls checked.
HeaderReplies ==
    { r \in TokenReplies :
        \/ r.reach = "failed"
        \/ /\ r.status \in {200, 500}
           /\ r.body.kind \in {"text", "object"}
           /\ r.body.field \in {"absent", "string"} }

\* A step of a function called on its own leaves the run's state alone.
CallUnchanged ==
    UNCHANGED << cfg, cancelled, mainPc, workerVars, jobs, jobsClosed, results,
                 resultsClosed, wg, countMutex, counterVars, dispVars, finPc,
                 aggVars, log, enqueued, dequeued, cancelMidDispatch,
                 abortedInFlight, histVars >>

\* The configurations of the calls checked: one endpoint and a global policy.
HeaderConfigs ==
    { [ ConcurrentRequests |-> 1, TotalRequests |-> 1,
        Endpoints |-> << [Method |-> "GET", Headers |-> h, AuthConfig |-> a] >>,
        Auth |-> g,
        DelayBetween |-> [Enabled |-> FALSE, Type |-> "fixed", Fixed |-> 0] ] :
      h \in StaticHeaders, a \in EndpointPolicies, g \in GlobalPolicies }

HeadersInit ==
    /\ cfg \in HeaderConfigs
    /\ Entered
    /\ call \in { [fn |-> "getHeadersForEndpoint", pc |-> "called", reply |-> o,
                   ret |-> NoCall, n |-> 1] : o \in HeaderReplies }

\* A worker's call of getHeadersForEndpoint for the endpoint of its job.
GetHeaders ==
    /\ call.fn = "getHeadersForEndpoint"
    /\ call.pc = "called"
    /\ LET ret == GetHeadersForEndpoint(cfg.Endpoints[1], call.reply) IN
          /\ call' = [call EXCEPT !.pc = "returned", !.ret = ret]
          /\ cfg' = [cfg EXCEPT !.Endpoints[1].Headers = ret.endpointHeaders]
    /\ UNCHANGED << cancelled, mainPc, workerVars, jobs, jobsClosed, results,
                    resultsClosed, wg, countMutex, counterVars, dispVars, finPc,
                    aggVars, log, enqueued, dequeued, cancelMidDispatch,
                    abortedInFlight, histVars >>

\* The worker receives the next job for the endpoint; the token server may
\* reply differently this time.
NextJob ==
    /\ call.fn = "getHeadersForEndpoint"
    /\ call.pc = "returned"
    /\ call.n < MaxJobs
    /\ \E o \in HeaderReplies :
          call' = [call EXCEPT !.pc = "called", !.reply = o, !.ret = NoCall,
                               !.n = call.n + 1]
    /\ CallUnchanged

HeadersNext == GetHeaders \/ NextJob

HeadersSpec == HeadersInit /\ [][HeadersNext]_vars

(* ---------------------------------------------------------------------- *)
(* makeRequest's copy of the built headers onto the request                *)
(* ---------------------------------------------------------------------- *)
\* textproto.CanonicalMIMEHeaderKey on the header names used here: the first
\* letter and every letter after a hyphen in upper case, the others in lower.
Canonical(name) ==
    CASE name \in {"User-Agent", "user-agent"} -> "User-Agent"
      [] name \in {"Authorization", "authorization"} -> "Authorization"
      [] name = "X-API-Key" -> "X-Api-Key"
      [] OTHER -> name

\* The orders in which a range over a map with keys S may visit them.
RangeOrders(S) ==
    { o \in [1..Cardinality(S) -> S] :
        \A a, b \in 1..Cardinality(S) : a # b => o[a] # o[b] }

\* for key, value := range headers { req.Header.Set(key, value) } in the
\* given order: Set replaces what the canonical name holds.
RECURSIVE SetAll(_, _, _)
SetAll(header, order, headers) ==
    IF order = << >>
    THEN header
    ELSE SetAll(Put(header, Canonical(Head(order)), headers[Head(order)]),
                Tail(order), headers)

\* The headers the request may carry after the copy loop.
CopiedHeaders(headers) ==
    { SetAll(EmptyMap, o, headers) : o \in RangeOrders(DOMAIN headers) }

\* Endpoint.Headers whose names differ from User-Agent or Authorization in
\* letter case only.
CaseHeaders ==
    { [h \in {"user-agent"} |-> "custom"],
      [h \in {"authorization"} |-> "static"],
      [h \in {"Accept", "user-agent"} |-> "custom"] }

CopyInit ==
    /\ cfg \in { [ ConcurrentRequests |-> 1, TotalRequests |-> 1,
                   Endpoints |-> << [Method |-> "GET", Headers |-> h, AuthConfig |-> a] >>,
                   Auth |-> g,
                   DelayBetween |-> [Enabled |-> FALSE, Type |-> "fixed", Fixed |-> 0] ] :
                 h \in StaticHeaders \cup CaseHeaders, a \in EndpointPolicies,
                 g \in GlobalPolicies }
    /\ Entered
    /\ call \in { [fn |-> "getHeadersForEndpoint", pc |-> "called", reply |-> o,
                   ret |-> NoCall, n |-> 1] : o \in HeaderReplies }

\* makeRequest with the headers built for the job, up to client.Do: req is
\* the header of the request sent.
CopyHeaders ==
    /\ call.fn = "getHeadersForEndpoint"
    /\ call.pc = "returned"
    /\ call.ret.err = "nil"
    /\ \E req \in CopiedHeaders(call.ret.headers) :
          call' = [fn |-> "makeRequest", pc |-> "copied", built |-> call.ret, req |-> req]
    /\ CallUnchanged

CopyNext == GetHeaders \/ CopyHeaders

CopySpec == CopyInit /\ [][CopyNext]_vars

(* ---------------------------------------------------------------------- *)
(* GetAuthHeader with an oauth2 policy: one token exchange                 *)
(* ---------------------------------------------------------------------- *)
\* config.OAuth2Auth values: with and without username, password and scope.
OAuthConfigs ==
    [ TokenURL : {"https://idp/token", MalformedURL},
      ClientID : {"client"},
      ClientSecret : {"secret"},
      Username : {"", "alice"},
      Password : {"", "pw"},
      GrantType : {"client_credentials", "password"},
      Scope : {"", "read"} ]

\* The policies GetAuthHeader is called with: every type, enabled and
\* disabled, the api_key header names, and the OAuth2 values.
AuthPolicies ==
    { Policy(en, t, "global") :
        en \in BOOLEAN, t \in {"", "api_key", "basic", "oauth2", "ldap"} }
    \cup { KeyedBy(Policy(TRUE, "api_key", "global"), h) : h \in KeyNames }
    \cup { [Policy(TRUE, "oauth2", "global") EXCEPT !.OAuth2 = a] : a \in OAuthConfigs }

TokenInit ==
    /\ cfg \in { [ ConcurrentRequests |-> 1, TotalRequests |-> 1,
                   Endpoints |-> << [Method |-> "GET", Headers |-> EmptyMap,
                                     AuthConfig |-> Nil] >>,
                   Auth |-> a,
                   DelayBetween |-> [Enabled |-> FALSE, Type |-> "fixed", Fixed |-> 0] ] :
                 a \in AuthPolicies }
    /\ Entered
    /\ call \in { [fn |-> "GetAuthHeader", pc |-> "called", reply |-> r,
                   ret |-> NoCall] : r \in TokenReplies }

\* getHeadersForEndpoint's call of auth.GetAuthHeader with the global policy.
DoGetAuthHeader ==
    /\ call.fn = "GetAuthHeader"
    /\ call.pc = "called"
    /\ call' = [call EXCEPT !.pc = "returned",
                            !.ret = GetAuthHeader(cfg.Auth, call.reply)]
    /\ UNCHANGED << cfg, cancelled, mainPc, workerVars, jobs, jobsClosed, results,
                    resultsClosed, wg, countMutex, counterVars, dispVars, finPc,
                    aggVars, log, enqueued, dequeued, cancelMidDispatch,
                    abortedInFlight, histVars >>

\* The worker with the result: an error is wrapped by getHeadersForEndpoint
\* and the job counted as failed under countMutex; otherwise the worker
\* goes on to makeRequest.
AfterAuthHeader ==
    /\ call.fn = "GetAuthHeader"
    /\ call.pc = "returned"
    /\ IF call.ret.err # "nil"
       THEN /\ failureCount' = failureCount + 1
            /\ call' = [call EXCEPT !.pc = "counted"]
       ELSE /\ failureCount' = failureCount
            /\ call' = [call EXCEPT !.pc = "request"]
    /\ UNCHANGED << cfg, cancelled, mainPc, workerVars, jobs, jobsClosed, results,
                    resultsClosed, wg, countMutex, successCount, dispVars, finPc,
                    aggVars, log, enqueued, dequeued, cancelMidDispatch,
                    abortedInFlight, histVars >>

TokenNext == DoGetAuthHeader \/ AfterAuthHeader

TokenSpec == TokenInit /\ [][TokenNext]_vars

(* ---------------------------------------------------------------------- *)
(* makeRequest on its own: one request against one target                  *)
(* ---------------------------------------------------------------------- *)
\* The final status codes of a response.
ResponseCodes == 200..MaxStatus

\* A target: it refuses the connection, never answers, or answers with a
\* status after a latency (in the time unit of the timeout).
Targets ==
    { [reach |-> "refused", latency |-> 0, status |-> 200],
      [reach |-> "silent", latency |-> 0, status |-> 200] }
    \cup [reach : {"up"}, latency : 0..MaxLatency, status : ResponseCodes]

Timeouts == 0..MaxTimeout

NoError == [wraps |-> "nil", text |-> "", code |-> 0]

\* fmt.Errorf("%w: status code %d", ErrStatusCode, resp.StatusCode)
StatusCodeError(status) ==
    [ wraps |-> "ErrStatusCode",
      text |-> "received non-200 status code: status code " \o ToString(status),
      code |-> status ]

\* fmt.Errorf("%w: %v", ErrRequestFailed, err)
RequestFailedError(cause) ==
    [wraps |-> "ErrRequestFailed", text |-> "request error: " \o cause, code |-> 0]

\* Faulty variant: the request has no deadline and waits for its answer.
NoRequestDeadline(timeout) == MaxLatency + 1

\* The time after start at which the request's context and client give up.
RequestDeadline(timeout) == timeout

\* What makeRequest returns for a response with this status after latency.
Answered(target) ==
    IF ErrorStatus(target.status)
    THEN [ err |-> StatusCodeError(target.status), samples |-> << >>,
           returnedAt |-> target.latency ]
    ELSE [ err |-> NoError, samples |-> << target.latency >>,
           returnedAt |-> target.latency ]

TimedOut(timeout) ==
    [ err |-> RequestFailedError("context deadline exceeded"), samples |-> << >>,
      returnedAt |-> RequestDeadline(timeout) ]

\* makeRequest (without delay): the results it can have against target with
\* the given timeout. An answer arriving exactly at the deadline races
\* with it; a deadline of zero has expired before the request is sent.
MakeRequestResults(target, timeout) ==
    CASE RequestDeadline(timeout) = 0 -> {TimedOut(timeout)}
      [] target.reach = "refused" ->
            { [ err |-> RequestFailedError("connection refused"), samples |-> << >>,
                returnedAt |-> 0 ] }
      [] target.reach = "silent" -> {TimedOut(timeout)}
      [] OTHER ->
            (IF target.latency <= RequestDeadline(timeout) THEN {Answered(target)} ELSE {})
            \cup
            (IF target.latency >= RequestDeadline(timeout) THEN {TimedOut(timeout)} ELSE {})

RequestInit ==
    /\ cfg \in { c \in Configs : /\ c.ConcurrentRequests = 1
                                 /\ c.TotalRequests = 1
                                 /\ c.Endpoints = << [Method |-> "GET", AuthConfig |-> Nil] >>
                                 /\ c.Auth = AuthDisabled
                                 /\ ~c.DelayBetween.Enabled }
    /\ Entered
    /\ call \in { [fn |-> "makeRequest", pc |-> "called", target |-> t, timeout |-> d,
                   ret |-> NoCall] : t \in Targets, d \in Timeouts }

\* A call of makeRequest runs to its return.
DoMakeRequest ==
    /\ call.fn = "makeRequest"
    /\ call.pc = "called"
    /\ \E r \in MakeRequestResults(call.target, call.timeout) :
          call' = [call EXCEPT !.pc = "returned", !.ret = r]
    /\ UNCHANGED << cfg, cancelled, mainPc, workerVars, jobs, jobsClosed, results,
                    resultsClosed, wg, countMutex, counterVars, dispVars, finPc,
                    aggVars, log, enqueued, dequeued, cancelMidDispatch,
                    abortedInFlight, histVars >>

RequestNext == DoMakeRequest

RequestSpec == RequestInit /\ [][RequestNext]_vars

(* ---------------------------------------------------------------------- *)
(* makeRequest's delay step and clock: one request in time                 *)
(* ---------------------------------------------------------------------- *)
\* config.Delay values, in milliseconds.
DelayPolicies ==
    [ Enabled : BOOLEAN, Type : {"fixed", "random"},
      Fixed : 0..MaxDelay, Min : 0..MaxDelay, Max : 0..MaxDelay ]

\* rand.Intn(n) panics when n <= 0 and otherwise returns one of 0..n-1.
IntnPanics(n) == n <= 0
Intn(n) == 0..(n - 1)

\* The delay step panics: rand.Intn(delay.Max-delay.Min) with no value to draw.
DelayPanics(delay) ==
    delay.Enabled /\ delay.Type = "random" /\ IntnPanics(delay.Max - delay.Min)

\* The durations the delay step may pass to time.Sleep.
SleepTimes(delay) ==
    IF ~delay.Enabled
    THEN {0}
    ELSE IF delay.Type = "random"
    THEN { r + delay.Min : r \in Intn(delay.Max - delay.Min) }
    ELSE {delay.Fixed}

\* Faulty variant: the clock is started on entry, before the delay.
ClockStartAtEntry(entered, afterDelay) == entered

\* start := time.Now() follows the delay step.
ClockStart(entered, afterDelay) == afterDelay

DelayInit ==
    /\ cfg \in { [ ConcurrentRequests |-> 1, TotalRequests |-> 1,
                   Endpoints |-> << [Method |-> "GET", AuthConfig |-> Nil] >>,
                   Auth |-> AuthDisabled,
                   DelayBetween |-> d ] : d \in DelayPolicies }
    /\ Entered
    /\ call = [ fn |-> "makeRequest", pc |-> "delay", now |-> 0, slept |-> 0,
                start |-> Absent, sentAt |-> Absent, ret |-> NoCall ]

\* The delay step of makeRequest, entered at time 0: time.Sleep pauses for
\* at least the duration asked.
DelayStep ==
    /\ call.fn = "makeRequest"
    /\ call.pc = "delay"
    /\ IF DelayPanics(cfg.DelayBetween)
       THEN call' = [call EXCEPT !.pc = "panicked"]
       ELSE \E d \in SleepTimes(cfg.DelayBetween), over \in 0..MaxOver :
               call' = [call EXCEPT !.pc = "clock", !.slept = d, !.now = d + over]
    /\ CallUnchanged

\* start := time.Now()
StartClock ==
    /\ call.fn = "makeRequest"
    /\ call.pc = "clock"
    /\ call' = [call EXCEPT !.pc = "send", !.start = ClockStart(0, call.now)]
    /\ CallUnchanged

\* The request is built and sent, the target answers with a status below
\* 400 after a latency, and time.Since(start) is sent on results.
TimedRequest ==
    /\ call.fn = "makeRequest"
    /\ call.pc = "send"
    /\ \E latency \in 0..MaxLatency :
          call' = [call EXCEPT !.pc = "returned",
                               !.sentAt = call.now,
                               !.now = call.now + latency,
                               !.ret = [ err |-> NoError,
                                         samples |-> << call.now + latency - call.start >> ]]
    /\ CallUnchanged

DelayNext == DelayStep \/ StartClock \/ TimedRequest

DelaySpec == DelayInit /\ [][DelayNext]_vars

(* ---------------------------------------------------------------------- *)
(* Properties                                                              *)
(* ---------------------------------------------------------------------- *)
Workers == 1..cfg.ConcurrentRequests
Canceled == "ErrRequestFailed: context canceled"
OwnErrors ==
    {"ErrStatusCode", "ErrRequestFailed: transport",
     "ErrRequestFailed: context deadline exceeded"}
RunOver ==
    /\ mainPc = "returned"
    /\ dispPc \in {"closed", "stopped"}
    /\ \A w \in Workers : pc[w] \in {"finished", "stopped"}

\* C1: a run that is never cancelled has enqueued exactly R x |Endpoints| jobs
\* when RunProbe returns, and successCount + failureCount equals that number.
C1_AllJobsCounted ==
    (mainPc = "returned" /\ ~cancelled) =>
        /\ enqueued = cfg.TotalRequests * Len(cfg.Endpoints)
        /\ successCount + failureCount = cfg.TotalRequests * Len(cfg.Endpoints)

\* A returned, uncancelled run in which C exceeds the job count and C does
\* not divide R, with a success and nothing failed.
C1_Witness ==
    /\ mainPc = "returned"
    /\ ~cancelled
    /\ cfg.ConcurrentRequests > cfg.TotalRequests * Len(cfg.Endpoints)
    /\ cfg.TotalRequests % cfg.ConcurrentRequests # 0
    /\ successCount = cfg.TotalRequests * Len(cfg.Endpoints)

\* C2: in every state the two counters together with the jobs still held by
\* workers account for every dequeued job, so that when RunProbe returns,
\* cancelled or not, successCount + failureCount = jobs dequeued.
C2_CountersMatchDequeued ==
    /\ successCount + failureCount + Cardinality(Holding) = dequeued
    /\ mainPc = "returned" => successCount + failureCount = dequeued

\* A returned, cancelled run that left jobs in the queue and counted both
\* successes and failures.
C2_Witness ==
    /\ mainPc = "returned"
    /\ cancelled
    /\ dequeued < enqueued
    /\ successCount > 0
    /\ failureCount > 0

\* C3: once started, exactly C workers exist, and at most C target requests
\* are in flight in every state.
C3_AtMostCInFlight ==
    /\ mainPc = "start" => Started = {}
    /\ mainPc # "start" => Cardinality(Started) = cfg.ConcurrentRequests
    /\ InFlight <= cfg.ConcurrentRequests

\* All of several workers have a request in flight at once.
C3_Witness ==
    /\ cfg.ConcurrentRequests >= 2
    /\ InFlight = cfg.ConcurrentRequests

\* C4: unless the run is cancelled, RunProbe eventually returns with the job
\* queue closed by the dispatcher, every worker exited through the
\* queue-closed path, and the result queue closed by the finalizer.
C4_Terminates ==
    <>( \/ cancelled
        \/ /\ mainPc = "returned"
           /\ dispPc = "closed"
           /\ jobsClosed
           /\ \A w \in Workers : pc[w] = "finished"
           /\ finPc = "done"
           /\ resultsClosed )

\* An uncancelled run returned although more samples were produced than the
\* result queue holds.
C4_Witness ==
    /\ mainPc = "returned"
    /\ ~cancelled
    /\ count = cfg.TotalRequests * Len(cfg.Endpoints)
    /\ count > cfg.TotalRequests

\* C5: once ctx is cancelled, the dispatcher and every worker eventually
\* exit and RunProbe returns.
C5_CancelTerminates == cancelled ~> RunOver

\* C6: a target request in flight never resolves by the cancellation.
C6_NoForcedAbort ==
    [][\A w \in Slots :
          (pc[w] = "request" /\ pc'[w] # "request") => err'[w] # Canceled]_vars

\* C6, amended: a target request in flight resolves by its own response, its
\* own transport error or its own timeout, or, only once ctx is cancelled,
\* by the cancellation, which fails the job without a sample.
C6_InFlightResolution ==
    [][\A w \in Slots :
          (pc[w] = "request" /\ pc'[w] # "request") =>
              \/ pc'[w] = "send" /\ err'[w] = "nil"
              \/ pc'[w] = "lock" /\ err'[w] \in OwnErrors
              \/ /\ cancelled
                 /\ pc'[w] = "lock"
                 /\ err'[w] = Canceled
                 /\ results' = results]_vars

\* A request in flight was ended by the cancellation and its job counted as failed.
C6_Witness ==
    /\ abortedInFlight
    /\ failureCount > 0
    /\ mainPc = "returned"

\* C7: no job is enqueued after ctx is cancelled.
C7_NoEnqueueAfterCancel == [][cancelled => enqueued' = enqueued]_vars

\* C8: no job is dequeued after ctx is cancelled.
C8_NoDequeueAfterCancel == [][cancelled => dequeued' = dequeued]_vars

C10_BothCancellationsLogged ==
    (cancelMidDispatch /\ RunOver) =>
        /\ "Job queue stopped due to cancellation" \in log
        /\ "Worker stopped due to cancellation" \in log

(* ---------------------------------------------------------------------- *)
(* Auth precedence and per-endpoint execution                              *)
(* ---------------------------------------------------------------------- *)
\* The result of getHeadersForEndpoint carries no credential: the static
\* headers and the fixed User-Agent only, and no token server was asked.
NoCredential(endpoint, ret) ==
    /\ ret.err = "nil"
    /\ ret.exchanged = {}
    /\ ret.auth = [header |-> "", value |-> ""]
    /\ DOMAIN ret.headers = (DOMAIN endpoint.Headers) \cup {"User-Agent"}
    /\ \A h \in (DOMAIN endpoint.Headers) \ {"User-Agent"} :
          ret.headers[h] = endpoint.Headers[h]

\* The token server's reply holds a token the exchange accepts.
Accepted(reply) ==
    /\ reply.reach = "answered"
    /\ reply.status = 200
    /\ reply.body.kind = "object"
    /\ reply.body.field = "string"

\* The result of getHeadersForEndpoint is what policy p yields: its
\* credential header, or the error of resolving it. An api_key policy with
\* no header name yields no header, and one named User-Agent is overwritten.
Carries(p, ret, o) ==
    /\ p.Type = "api_key" =>
          /\ ret.err = "nil"
          /\ ret.exchanged = {}
          /\ ret.auth = [header |-> p.APIKey.Header, value |-> p.APIKey.Value]
          /\ p.APIKey.Header \notin {"", "User-Agent"} =>
                ret.headers[p.APIKey.Header] = p.APIKey.Value
    /\ p.Type = "basic" =>
          /\ ret.err = "nil"
          /\ ret.headers["Authorization"] =
                "Basic " \o Base64(p.Basic.Username \o ":" \o p.Basic.Password)
    /\ p.Type = "oauth2" =>
          /\ ret.exchanged = {p.OAuth2.TokenURL}
          /\ IF Accepted(o)
             THEN /\ ret.err = "nil"
                  /\ ret.headers["Authorization"] = "Bearer " \o o.body.value
             ELSE ret.err # "nil"
    /\ p.Type \notin {"api_key", "basic", "oauth2"} =>
          ret.err = "failed to get auth header: unsupported auth type: " \o p.Type

\* C11: the headers of a job are resolved with the endpoint's own policy
\* whenever the endpoint defines one (a disabled one yields no credential
\* header even when the global policy is enabled), and with the global
\* policy exactly when the endpoint defines none.
C11_EndpointPolicyFirst ==
    (call.fn = "getHeadersForEndpoint" /\ call.pc = "returned") =>
        LET endpoint == cfg.Endpoints[1]
            own == endpoint.AuthConfig
        IN  /\ (own # Nil /\ ~own.Enabled) => NoCredential(endpoint, call.ret)
            /\ (own # Nil /\ own.Enabled) => Carries(own, call.ret, call.reply)
            /\ own = Nil =>
                  IF cfg.Auth.Enabled
                  THEN Carries(cfg.Auth, call.ret, call.reply)
                  ELSE NoCredential(endpoint, call.ret)

\* An endpoint with a disabled policy of its own, under an enabled global
\* policy, got headers without a credential.
C11_Witness ==
    /\ call.fn = "getHeadersForEndpoint"
    /\ call.pc = "returned"
    /\ cfg.Endpoints[1].AuthConfig # Nil
    /\ ~cfg.Endpoints[1].AuthConfig.Enabled
    /\ cfg.Auth.Enabled
    /\ cfg.Auth.Type = "oauth2"
    /\ call.ret.err = "nil"
    /\ "Authorization" \notin DOMAIN call.ret.headers

\* C12: in a run that is not cancelled, for every endpoint of the list
\* exactly R jobs were executed, whatever C; the target was sent exactly R
\* requests for every endpoint whose auth resolution cannot fail, and for
\* every endpoint when no job failed.
C12_RJobsPerEndpoint ==
    (mainPc = "returned" /\ ~cancelled) =>
        /\ successCount + failureCount = cfg.TotalRequests * Len(cfg.Endpoints)
        /\ \A e \in 1..Len(cfg.Endpoints) :
              /\ taken[e] = cfg.TotalRequests
              /\ sent[e] <= cfg.TotalRequests
              /\ AuthStep(cfg.Endpoints[e]) \in {"none", "static"} =>
                    sent[e] = cfg.TotalRequests
              /\ failureCount = 0 => sent[e] = cfg.TotalRequests

\* An uncancelled run with a token exchange per job, C not dividing R, two
\* endpoints, returned with R requests sent for each endpoint.
C12_Witness ==
    /\ mainPc = "returned"
    /\ ~cancelled
    /\ cfg.Auth = AuthOAuth2
    /\ cfg.TotalRequests % cfg.ConcurrentRequests # 0
    /\ Len(cfg.Endpoints) = 2
    /\ \A e \in 1..Len(cfg.Endpoints) : sent[e] = cfg.TotalRequests

\* Workers whose job succeeded (its sample is sent) and is not yet counted.
Uncounted == {w \in Slots : pc[w] \in {"lock", "incr"} /\ err[w] = "nil"}

\* C13: the samples put on the result queue are those of the jobs counted,
\* or about to be counted, as successes; a job that failed never sends one;
\* when RunProbe returns the samples aggregated equal successCount.
C13_SampleIffSuccess ==
    /\ count + Len(results) = successCount + Cardinality(Uncounted)
    /\ \A w \in Slots : pc[w] = "send" => err[w] = "nil"
    /\ \A w \in Slots : (pc[w] \in {"lock", "incr"} /\ err[w] # "nil") => elapsed[w] = 0
    /\ mainPc = "returned" => count = successCount

\* A returned run with both successes and failures.
C13_Witness ==
    /\ mainPc = "returned"
    /\ successCount > 0
    /\ failureCount > 0
    /\ count = successCount

\* C14: the aggregation never divides by zero; with samples the average is
\* the truncated quotient of their sum by their number; with none, no
\* average is computed and the run reports that no request was successful.
C14_AverageOnlyWithSamples ==
    /\ mainPc # "panicked"
    /\ (mainPc = "returned" /\ call.fn = "aggregate") =>
          IF Len(call.samples) > 0
          THEN /\ summary = "Test completed"
               /\ count = Len(call.samples)
               /\ avgTime * count <= Sum(call.samples)
               /\ Sum(call.samples) < (avgTime + 1) * count
               /\ attrs.avg_response_time = avgTime
               /\ attrs.total_requests = count
          ELSE /\ summary = "No requests were successful"
               /\ avgTime = Absent
               /\ attrs = [NoAttrs EXCEPT !.failed_requests = failureCount]

\* The aggregation of no sample has returned.
C14_Witness ==
    /\ call.fn = "aggregate"
    /\ call.samples = << >>
    /\ mainPc = "returned"
    /\ summary = "No requests were successful"

\* C15: a worker leaves its loop only on cancellation or on the closed,
\* drained job queue, and the dispatcher stops early only on cancellation;
\* a job's error only sends the worker to count it as failed and then back
\* to its select; a worker hands at most one request per job to the
\* transport.
C15_ErrorsStayLocal ==
    [][ /\ \A w \in Slots :
              /\ (pc[w] # "stopped" /\ pc'[w] = "stopped") =>
                    pc[w] = "select" /\ cancelled
              /\ (pc[w] # "finished" /\ pc'[w] = "finished") =>
                    pc[w] = "select" /\ jobsClosed /\ Len(jobs) = 0
              /\ (err[w] = "nil" /\ err'[w] # "nil") => pc'[w] = "lock"
              /\ (pc[w] = "incr" /\ pc'[w] # "incr") =>
                    pc'[w] = "select" /\ job'[w] = 0 /\ err'[w] = "nil"
              /\ (pc[w] \in {"send", "lock", "incr"}) => pc'[w] # "request"
              /\ (pc[w] # "request" /\ pc'[w] = "request") =>
                    /\ pc[w] \in {"select", "token", "sleep"}
                    /\ sent' = [sent EXCEPT ![job'[w]] = @ + 1]
        /\ (dispPc = "loop" /\ dispPc' = "stopped") => cancelled
        /\ sent' # sent => \E w \in Slots : pc[w] # "request" /\ pc'[w] = "request"
        /\ \A e \in 1..Len(cfg.Endpoints) : sent'[e] <= taken'[e] ]_vars

\* An uncancelled run returned after two jobs failed in request
\* construction and one at its target, and a fourth job succeeded.
C15_Witness ==
    /\ mainPc = "returned"
    /\ ~cancelled
    /\ cfg.Endpoints =
          << [Method |-> "BAD METHOD", AuthConfig |-> AuthDisabled],
             [Method |-> "POST", AuthConfig |-> AuthOAuth2] >>
    /\ cfg.TotalRequests = 2
    /\ failureCount = 3
    /\ successCount = 1
    /\ sent = << 0, 2 >>

\* The global policy is enabled with an unsupported type and no endpoint
\* has a policy of its own.
UnsupportedGlobalOnly ==
    /\ cfg.Auth.Enabled
    /\ cfg.Auth.Type \notin {"api_key", "basic", "oauth2"}
    /\ \A e \in 1..Len(cfg.Endpoints) : cfg.Endpoints[e].AuthConfig = Nil

\* C16: with an unsupported global auth type that no endpoint overrides, no
\* job is enqueued, dequeued or counted and no request is sent.
C16_NoJobRuns ==
    UnsupportedGlobalOnly =>
        /\ enqueued = 0
        /\ dequeued = 0
        /\ successCount + failureCount = 0
        /\ \A e \in 1..Len(cfg.Endpoints) : sent[e] = 0

\* C16, amended: with an unsupported global auth type that no endpoint
\* overrides, the run goes on: no request is ever sent and no job succeeds,
\* every job dequeued fails in auth resolution, and an uncancelled run
\* returns with all R x |Endpoints| jobs enqueued, dequeued and counted as
\* failed, reporting that no request was successful.
C16_EveryJobFailsAuth ==
    UnsupportedGlobalOnly =>
        /\ \A e \in 1..Len(cfg.Endpoints) : sent[e] = 0
        /\ \A w \in Slots :
              /\ pc[w] \notin {"token", "sleep", "request", "send"}
              /\ err[w] \in {"nil", "failed to get auth header"}
        /\ successCount = 0
        /\ count = 0 /\ results = << >>
        /\ (mainPc = "returned" /\ ~cancelled) =>
              /\ enqueued = cfg.TotalRequests * Len(cfg.Endpoints)
              /\ dequeued = cfg.TotalRequests * Len(cfg.Endpoints)
              /\ failureCount = cfg.TotalRequests * Len(cfg.Endpoints)
              /\ summary = "No requests were successful"
              /\ attrs.failed_requests = failureCount

\* Such a run returned uncancelled with four jobs counted as failed.
C16_Witness ==
    /\ UnsupportedGlobalOnly
    /\ mainPc = "returned"
    /\ ~cancelled
    /\ failureCount = 4
    /\ summary = "No requests were successful"

\* C17: the summary of a cancelled run that ends without a sample is not the
\* summary that a run of the same configuration logs when it completes
\* without a successful request (the message, with all jobs failed).
C17_SummaryTellsCancellation ==
    (mainPc = "returned" /\ cancelled /\ count = 0) =>
        ~ /\ summary = "No requests were successful"
          /\ attrs = [NoAttrs EXCEPT
                        !.failed_requests = cfg.TotalRequests * Len(cfg.Endpoints)]

\* The number of the first n jobs offered that are for endpoint e.
OfferedFor(e, n) == Cardinality({k \in 1..n : offered[k] = e})

\* C18: every job offered is either still in the job queue or was received
\* once: the queue holds the jobs offered and not yet received, in order,
\* each worker past its select holds one received job, and an uncancelled
\* run returns with every offered job received and the queue empty.
C18_DequeuedOnce ==
    /\ enqueued = Len(offered)
    /\ dequeued + Len(jobs) = enqueued
    /\ \A k \in 1..Len(jobs) : jobs[k] = offered[dequeued + k]
    /\ \A e \in 1..Len(cfg.Endpoints) : taken[e] = OfferedFor(e, dequeued)
    /\ \A w \in Slots : job[w] # 0 <=> w \in Holding
    /\ dequeued = successCount + failureCount + Cardinality(Holding)
    /\ (mainPc = "returned" /\ ~cancelled) =>
          /\ jobs = << >>
          /\ dequeued = cfg.TotalRequests * Len(cfg.Endpoints)

\* Two workers hold a job each, for different endpoints, a third job waits.
C18_Witness ==
    /\ Cardinality(Holding) = 2
    /\ job[1] # job[2]
    /\ Len(jobs) > 0

\* The endpoint of the k-th job of the enumeration "for each repetition,
\* for each endpoint in configured order".
EnumeratedEndpoint(k) == ((k - 1) % Len(cfg.Endpoints)) + 1

\* C19: the jobs offered are always a prefix of the enumeration; every
\* receive takes the oldest offered job not yet received; and with C = 1
\* the worker holds one job at a time and each request handed to the
\* transport is for the job received last, so requests go out in the order
\* of the enumeration.
C19_EnumerationOrder ==
    [][ /\ Len(offered') <= cfg.TotalRequests * Len(cfg.Endpoints)
        /\ \A k \in 1..Len(offered') : offered'[k] = EnumeratedEndpoint(k)
        /\ \A w \in Slots :
              (pc[w] = "select" /\ job'[w] # 0) =>
                  /\ dequeued' = dequeued + 1
                  /\ job'[w] = EnumeratedEndpoint(dequeued')
        /\ cfg.ConcurrentRequests = 1 =>
              /\ Cardinality({w \in Slots : job'[w] # 0}) <= 1
              /\ sent' # sent =>
                    sent' = [sent EXCEPT ![EnumeratedEndpoint(dequeued')] = @ + 1] ]_vars

\* A single worker sent all four requests of two repetitions of two
\* endpoints and the run returned.
C19_Witness ==
    /\ cfg.ConcurrentRequests = 1
    /\ cfg.TotalRequests = 2
    /\ offered = << 1, 2, 1, 2 >>
    /\ sent = << 2, 2 >>
    /\ mainPc = "returned"

\* C20: a worker about to send a sample never finds the result queue full
\* (its capacity being at least the R x |Endpoints| samples a run can have).
C20_ResultsNeverFull ==
    \A w \in Slots : pc[w] = "send" => Len(results) < ResultsCap

\* C21: the dispatcher, with a job still to offer, never finds the job queue
\* full (its capacity being at least the R x |Endpoints| jobs of a run).
C21_JobsNeverFull ==
    (dispPc = "loop" /\ i < Repetitions) => Len(jobs) < JobsCap

\* Workers that are not running: never started, or exited by either path.
Exited == {w \in Slots : pc[w] \in {"unstarted", "finished", "stopped"}}

\* C22: once the summary is logged every worker has exited and the mutex is
\* free, and the counters it reports are the counters' values from then on:
\* no counter is written at or after the read.
C22_CountersReadAfterWorkers ==
    mainPc = "returned" =>
        /\ Exited = Slots
        /\ countMutex = 0
        /\ attrs.failed_requests = failureCount
        /\ summary = "Test completed" => attrs.successful_requests = successCount

\* A run of two workers returned and reported both successes and failures.
C22_Witness ==
    /\ mainPc = "returned"
    /\ cfg.ConcurrentRequests = 2
    /\ attrs.successful_requests > 0
    /\ attrs.failed_requests > 0

\* C23: results is closed by the finalizer's single close, only once every
\* worker has exited, and is closed when RunProbe returns; jobs is closed
\* only by the dispatcher's single close after its last enqueue; once a
\* queue is closed it stays closed, nothing is sent on it and no goroutine
\* is at a send or a close of it.
C23_ClosedOnceAfterProducers ==
    [][ /\ (~resultsClosed /\ resultsClosed') =>
              /\ finPc = "wait" /\ finPc' = "done"
              /\ Exited = Slots
              /\ Cardinality(Started) = cfg.ConcurrentRequests
        /\ resultsClosed =>
              /\ resultsClosed'
              /\ finPc = "done" /\ finPc' = "done"
              /\ Len(results') <= Len(results)
              /\ \A w \in Slots : pc[w] # "send"
        /\ (~jobsClosed /\ jobsClosed') =>
              /\ dispPc = "loop" /\ dispPc' = "closed"
              /\ enqueued = cfg.TotalRequests * Len(cfg.Endpoints)
        /\ jobsClosed =>
              /\ jobsClosed'
              /\ dispPc = "closed" /\ dispPc' = "closed"
              /\ enqueued' = enqueued
        /\ mainPc' = "returned" => resultsClosed' ]_vars

\* A cancelled run of two workers returned with results closed and the job
\* queue left open, samples aggregated.
C23_Witness ==
    /\ mainPc = "returned"
    /\ cfg.ConcurrentRequests = 2
    /\ resultsClosed
    /\ ~jobsClosed
    /\ count > 0

Deadline == "ErrRequestFailed: context deadline exceeded"

\* C26: the expiry of a request's timeout fails that request's job alone:
\* in that step no other worker, no queue and not ctx changes, so every
\* other request in flight stays in flight; and the worker whose request
\* timed out counts the job and returns to its select.
C26_TimeoutIsLocal ==
    [][ \A w \in Slots :
          /\ (pc[w] = "request" /\ err'[w] = Deadline) =>
                /\ pc'[w] = "lock"
                /\ \A v \in Slots \ {w} :
                      /\ pc'[v] = pc[v] /\ err'[v] = err[v]
                      /\ job'[v] = job[v] /\ elapsed'[v] = elapsed[v]
                /\ cancelled' = cancelled
                /\ jobs' = jobs /\ results' = results
                /\ jobsClosed' = jobsClosed /\ resultsClosed' = resultsClosed
          /\ (err[w] = Deadline /\ pc[w] = "lock") => pc'[w] \in {"lock", "incr"}
          /\ (err[w] = Deadline /\ pc[w] = "incr" /\ pc'[w] # "incr") =>
                /\ pc'[w] = "select"
                /\ failureCount' = failureCount + 1 ]_vars

\* One worker's request timed out while another worker's is in flight.
C26_Witness ==
    /\ pc[1] = "lock"
    /\ err[1] = Deadline
    /\ pc[2] = "request"
    /\ ~cancelled

\* Endpoint e's effective policy is an enabled oauth2 policy.
NeedsToken(e) ==
    LET own == cfg.Endpoints[e].AuthConfig
        p == IF own # Nil THEN own ELSE cfg.Auth
    IN  p.Enabled /\ p.Type = "oauth2"

RECURSIVE TokenJobs(_)
\* The jobs received so far, of the first n endpoints, that need a token.
TokenJobs(n) ==
    IF n = 0 THEN 0
    ELSE TokenJobs(n - 1) + (IF NeedsToken(n) THEN taken[n] ELSE 0)

\* C28: the token exchanges started in a run are as many as the jobs
\* received whose effective policy is an enabled oauth2 policy: one
\* exchange for each such job, none kept for a later one.
C28_OneExchangePerTokenJob ==
    /\ exchanges = TokenJobs(Len(cfg.Endpoints))
    /\ Cardinality({w \in Slots : pc[w] = "token"}) <= exchanges

\* An uncancelled run of four jobs under a global oauth2 policy returned
\* after four exchanges.
C28_Witness ==
    /\ mainPc = "returned"
    /\ ~cancelled
    /\ cfg.Auth = AuthOAuth2
    /\ dequeued = 4
    /\ exchanges = 4

\* C24: when makeRequest receives a response before its deadline, a status
\* below 400 gives no error and exactly one sample, and a status of 400 or
\* more gives an error that wraps ErrStatusCode and carries the status code,
\* and no sample.
C24_ClassifiedByStatus ==
    ( /\ call.fn = "makeRequest" /\ call.pc = "returned"
      /\ call.target.reach = "up"
      /\ call.target.latency < call.timeout ) =>
        IF call.target.status < 400
        THEN /\ call.ret.err = NoError
             /\ Len(call.ret.samples) = 1
        ELSE /\ call.ret.err.wraps = "ErrStatusCode"
             /\ call.ret.err.code = call.target.status
             /\ call.ret.err.text =
                   "received non-200 status code: status code " \o
                   ToString(call.target.status)
             /\ call.ret.samples = << >>

\* A response with status 400, the lowest failing status, was classified.
C24_Witness ==
    /\ call.fn = "makeRequest"
    /\ call.pc = "returned"
    /\ call.target.reach = "up"
    /\ call.target.status = 400
    /\ call.ret.err.wraps = "ErrStatusCode"

\* C25: a request against a target that refuses the connection, never
\* answers, or answers later than the timeout fails with an error wrapping
\* ErrRequestFailed, never ErrStatusCode, and sends no sample; in the last
\* two cases makeRequest returns at the timeout, not at the answer.
C25_TransportFailure ==
    (call.fn = "makeRequest" /\ call.pc = "returned") =>
        LET late == \/ call.target.reach = "silent"
                    \/ call.target.reach = "up" /\ call.target.latency > call.timeout
        IN  /\ (call.target.reach = "refused" \/ late) =>
                  /\ call.ret.err.wraps = "ErrRequestFailed"
                  /\ call.ret.samples = << >>
            /\ late =>
                  /\ call.ret.err = RequestFailedError("context deadline exceeded")
                  /\ call.ret.returnedAt = call.timeout

\* A target answering 500 after the timeout: the call returned at the
\* timeout with a request error.
C25_Witness ==
    /\ call.fn = "makeRequest"
    /\ call.pc = "returned"
    /\ call.target.reach = "up"
    /\ call.target.status = 500
    /\ call.timeout = 1
    /\ call.target.latency = MaxLatency
    /\ call.ret.err.wraps = "ErrRequestFailed"
    /\ call.ret.returnedAt = 1


\* C27: the headers built for a job are the endpoint's static headers, with
\* the resolved auth header written over a static header of its name, and
\* with User-Agent set to the fixed value whatever the static headers or
\* the auth header say about User-Agent.
C27_MergeOrder ==
    (call.fn = "getHeadersForEndpoint" /\ call.pc = "returned" /\ call.ret.err = "nil") =>
        LET static == cfg.Endpoints[1].Headers
            auth == call.ret.auth
            headers == call.ret.headers
        IN  /\ DOMAIN headers = (DOMAIN static) \cup {"User-Agent"}
                                \cup (IF auth.header = "" THEN {} ELSE {auth.header})
            /\ headers["User-Agent"] = UserAgent
            /\ \A k \in (DOMAIN headers) \ {"User-Agent"} :
                  headers[k] = IF k = auth.header THEN auth.value ELSE static[k]

\* An endpoint with static Authorization and User-Agent headers and an
\* issued token: the bearer value replaced the static Authorization and the
\* fixed value the static User-Agent.
C27_Witness ==
    /\ call.fn = "getHeadersForEndpoint"
    /\ call.pc = "returned"
    /\ DOMAIN cfg.Endpoints[1].Headers = {"Authorization", "User-Agent"}
    /\ call.ret.err = "nil"
    /\ call.ret.auth = [header |-> "Authorization", value |-> "Bearer tok"]
    /\ call.ret.headers["Authorization"] = "Bearer tok"
    /\ call.ret.headers["User-Agent"] = UserAgent

\* The ways a token server's answer is no token, as the specification lists
\* them.
NonSuccessStatus(reply) == reply.status \notin 200..299
Unparsable(reply) == reply.body.kind = "text"
LacksToken(reply) == reply.body.kind = "object" /\ reply.body.field # "string"

\* C29: when the token server answers with a status outside 200..299, with
\* a body that is no JSON, or with a JSON object without a string
\* access_token, GetAuthHeader returns an error and no header; the error
\* names the status code whenever the status is not 200, and otherwise the
\* parse failure or the missing field.
C29_ExchangeFailures ==
    ( /\ call.fn = "GetAuthHeader" /\ call.pc = "returned"
      /\ call.reply.reach = "answered"
      /\ call.ret.posted # {} ) =>
        LET reply == call.reply
            ret == call.ret
        IN  (NonSuccessStatus(reply) \/ Unparsable(reply) \/ LacksToken(reply)) =>
                /\ ret.err # "nil"
                /\ ret.header = ""
                /\ ret.value = ""
                /\ reply.status # 200 =>
                      ret.err = "OAuth server returned status: " \o ToString(reply.status)
                /\ (reply.status = 200 /\ Unparsable(reply)) =>
                      ret.err = "failed to parse OAuth response"
                /\ (reply.status = 200 /\ LacksToken(reply)) =>
                      ret.err = "access_token not found in response"

\* A token server answered 200 with an object whose access_token is a
\* number: the exchange failed on the missing field.
C29_Witness ==
    /\ call.fn = "GetAuthHeader"
    /\ call.pc = "returned"
    /\ call.reply.reach = "answered"
    /\ call.reply.status = 200
    /\ call.reply.body.kind = "object"
    /\ call.reply.body.field = "number"
    /\ call.ret.err = "access_token not found in response"
    /\ call.ret.header = ""

\* The names of a posted form.
FormNames(form) == { form[k][1] : k \in DOMAIN form }

\* C30: every posted token form holds client_id, client_secret and
\* grant_type, and holds username, password and scope only when the policy
\* gives the respective value.
C30_OptionalFieldsWhenPresent ==
    (call.fn = "GetAuthHeader" /\ call.pc = "returned") =>
        \A r \in call.ret.posted :
            LET names == FormNames(r.form)
                auth == cfg.Auth.OAuth2
            IN  /\ {"client_id", "client_secret", "grant_type"} \subseteq names
                /\ "username" \in names => auth.Username # ""
                /\ "password" \in names => auth.Password # ""
                /\ "scope" \in names => auth.Scope # ""

\* C31: with an enabled random delay policy with 0 <= min <= max, the delay
\* step completes without failing and asks for a sleep of d milliseconds
\* with min <= d < max.
C31_RandomDelayInRange ==
    ( /\ call.fn = "makeRequest" /\ call.pc # "delay"
      /\ cfg.DelayBetween.Enabled /\ cfg.DelayBetween.Type = "random"
      /\ 0 <= cfg.DelayBetween.Min /\ cfg.DelayBetween.Min <= cfg.DelayBetween.Max ) =>
        /\ call.pc # "panicked"
        /\ cfg.DelayBetween.Min <= call.slept
        /\ call.slept < cfg.DelayBetween.Max

\* C35: within one call of makeRequest the delay sleep completes, then the
\* clock starts, then the request is sent: the request is not sent before
\* the delay asked for has elapsed since entry, and the sample is the time
\* from the clock's start to the answer, which leaves the delay out.
C35_DelayBeforeClock ==
    (call.fn = "makeRequest" /\ call.pc = "returned") =>
        /\ call.slept <= call.start
        /\ call.start <= call.sentAt
        /\ call.ret.samples = << call.now - call.start >>
        /\ call.ret.samples[1] <= call.now - call.slept

\* A request after a fixed delay of MaxDelay with a slow answer: the sample
\* is the latency alone.
C35_Witness ==
    /\ call.fn = "makeRequest"
    /\ call.pc = "returned"
    /\ cfg.DelayBetween.Enabled
    /\ cfg.DelayBetween.Type = "fixed"
    /\ call.slept = MaxDelay
    /\ call.sentAt >= MaxDelay
    /\ call.ret.samples = << MaxLatency >>

\* C32: no step changes the configuration: after any sequence of jobs the
\* endpoints, with their static header maps and auth overrides, and the
\* global auth policy are what they were at the start; building a job's
\* headers does not write into the endpoint's header map.
C32_ConfigReadOnly == [][cfg' = cfg]_vars

\* The second job of an endpoint with static Authorization and User-Agent
\* headers got a bearer token and the fixed User-Agent, and the endpoint's
\* map still holds the static values.
C32_Witness ==
    /\ call.fn = "getHeadersForEndpoint"
    /\ call.pc = "returned"
    /\ call.n = 2
    /\ cfg.Endpoints[1].Headers = [h \in {"Authorization", "User-Agent"} |-> "static"]
    /\ call.ret.err = "nil"
    /\ call.ret.headers["Authorization"] = "Bearer tok"
    /\ call.ret.headers["User-Agent"] = UserAgent

\* The err of a job whose auth resolution failed.
AuthFailure == "failed to get auth header"

\* C34: a job whose auth resolution fails is never at a request or at the
\* send of a sample; the step in which the failure arises sends nothing to a
\* target and emits no sample; and the step that ends the job adds exactly
\* one to failureCount, leaves successCount and results alone, and takes the
\* worker back to its select.
C34_AuthFailureCounted ==
    [][ \A w \in Slots :
          /\ (err[w] # AuthFailure /\ err'[w] = AuthFailure) =>
                /\ sent' = sent
                /\ results' = results
                /\ pc'[w] = "lock"
          /\ err[w] = AuthFailure =>
                /\ pc[w] \in {"lock", "incr"}
                /\ err'[w] # AuthFailure =>
                      /\ failureCount' = failureCount + 1
                      /\ successCount' = successCount
                      /\ results' = results
                      /\ sent' = sent
                      /\ pc'[w] = "select" ]_vars

\* One worker, an endpoint of unsupported auth type and then one without
\* auth: the first job failed without a request and the second succeeded.
C34_Witness ==
    /\ mainPc = "returned"
    /\ ~cancelled
    /\ cfg.ConcurrentRequests = 1
    /\ cfg.TotalRequests = 1
    /\ Len(cfg.Endpoints) = 2
    /\ cfg.Endpoints[1].AuthConfig = AuthUnknown
    /\ cfg.Endpoints[2].AuthConfig = Nil
    /\ cfg.Auth = AuthDisabled
    /\ sent = << 0, 1 >>
    /\ failureCount = 1
    /\ successCount = 1
    /\ count = 1

\* The samples sent on results so far: those waiting and those aggregated.
SamplesSent == Len(results) + count

\* C36: in every state successCount + failureCount <= jobs dequeued <= jobs
\* enqueued <= R x |Endpoints|, and successCount <= samples sent <= jobs
\* dequeued.
C36_CounterChain ==
    /\ successCount + failureCount <= dequeued
    /\ dequeued <= enqueued
    /\ enqueued <= cfg.TotalRequests * Len(cfg.Endpoints)
    /\ successCount <= SamplesSent
    /\ SamplesSent <= dequeued

\* A sample is sent and its job not yet counted, while another job has
\* failed and a third waits in the queue: every inequality is strict.
C36_Witness ==
    /\ successCount + failureCount < dequeued
    /\ dequeued < enqueued
    /\ enqueued < cfg.TotalRequests * Len(cfg.Endpoints)
    /\ successCount < SamplesSent
    /\ SamplesSent < dequeued
    /\ failureCount > 0

\* C33: GetAuthHeader's result by the policy's variant: a disabled policy
\* gives no header and no error whatever its type; an enabled api_key policy
\* gives its header name and value as configured; an enabled basic policy
\* gives Authorization with 'Basic ' and the base64 of username ':'
\* password; an enabled policy of any other type than api_key, basic and
\* oauth2 gives an error and neither header nor value; only oauth2 and
\* unknown types give errors.
C33_ResultByVariant ==
    (call.fn = "GetAuthHeader" /\ call.pc = "returned") =>
        LET p == cfg.Auth
            ret == call.ret
        IN  /\ ~p.Enabled =>
                  ret.header = "" /\ ret.value = "" /\ ret.err = "nil"
            /\ (p.Enabled /\ p.Type = "api_key") =>
                  /\ ret.header = p.APIKey.Header
                  /\ ret.value = p.APIKey.Value
                  /\ ret.err = "nil"
            /\ (p.Enabled /\ p.Type = "basic") =>
                  /\ ret.header = "Authorization"
                  /\ ret.value = "Basic " \o Base64(p.Basic.Username \o ":" \o p.Basic.Password)
                  /\ ret.err = "nil"
            /\ (p.Enabled /\ p.Type \notin {"api_key", "basic", "oauth2"}) =>
                  /\ ret.err = "unsupported auth type: " \o p.Type
                  /\ ret.header = ""
                  /\ ret.value = ""
            /\ ret.posted # {} => p.Enabled /\ p.Type = "oauth2"

\* A disabled oauth2 policy was resolved, without a header, an error or a
\* token exchange.
C33_Witness ==
    /\ call.fn = "GetAuthHeader"
    /\ call.pc = "returned"
    /\ ~cfg.Auth.Enabled
    /\ cfg.Auth.Type = "oauth2"
    /\ call.ret.header = ""
    /\ call.ret.err = "nil"
    /\ call.ret.posted = {}

\* C37: when the endpoint has a policy of its own, the global policy's
\* token URL is not posted to; when the policy in effect (the endpoint's
\* own, or the global one if it has none) is disabled, no token exchange
\* takes place.
C37_NoForeignExchange ==
    (call.fn = "getHeadersForEndpoint" /\ call.pc = "returned") =>
        LET own == cfg.Endpoints[1].AuthConfig
            inEffect == IF own # Nil THEN own ELSE cfg.Auth
        IN  /\ own # Nil => cfg.Auth.OAuth2.TokenURL \notin call.ret.exchanged
            /\ ~inEffect.Enabled => call.ret.exchanged = {}

\* An endpoint with an oauth2 policy of its own under a global oauth2
\* policy: the endpoint's token URL alone was posted to.
C37_Witness ==
    /\ call.fn = "getHeadersForEndpoint"
    /\ call.pc = "returned"
    /\ cfg.Auth.Enabled
    /\ cfg.Auth.Type = "oauth2"
    /\ cfg.Endpoints[1].AuthConfig # Nil
    /\ cfg.Endpoints[1].AuthConfig.Enabled
    /\ cfg.Endpoints[1].AuthConfig.Type = "oauth2"
    /\ call.ret.exchanged = {cfg.Endpoints[1].AuthConfig.OAuth2.TokenURL}
    /\ cfg.Auth.OAuth2.TokenURL \notin call.ret.exchanged

\* C38: a token exchange succeeds only on status 200: for every other
\* status of the token server's answer, 201 and 204 with a token in the body
\* included, GetAuthHeader returns an error and no header, and the worker
\* counts the job as failed and sends no request.
C38_OnlyStatus200 ==
    ( /\ call.fn = "GetAuthHeader" /\ call.pc # "called"
      /\ call.reply.reach = "answered"
      /\ call.ret.posted # {} ) =>
        /\ call.ret.err = "nil" => call.reply.status = 200
        /\ call.reply.status # 200 =>
              /\ call.ret.err # "nil"
              /\ call.ret.header = ""
              /\ call.pc # "request"
              /\ call.pc = "counted" => failureCount = 1 /\ successCount = 0

\* The token server answered 201 with a token: the job was counted as
\* failed.
C38_Witness ==
    /\ call.fn = "GetAuthHeader"
    /\ call.pc = "counted"
    /\ call.reply.reach = "answered"
    /\ call.reply.status = 201
    /\ call.reply.body = [kind |-> "object", field |-> "string", value |-> "tok"]
    /\ call.ret.err = "OAuth server returned status: 201"
    /\ failureCount = 1

\* C39: the request sent carries the fixed User-Agent value and, when an
\* auth header other than User-Agent was resolved, the resolved value under
\* that header's name, whatever the endpoint's header map, maps with names
\* that differ from these in letter case only included.
C39_RequestCarriesAuth ==
    (call.fn = "makeRequest" /\ call.pc = "copied") =>
        LET auth == call.built.auth IN
        /\ call.req["User-Agent"] = UserAgent
        /\ (auth.header # "" /\ Canonical(auth.header) # "User-Agent") =>
              call.req[Canonical(auth.header)] = auth.value
====
